---- MODULE Spec2Model ----
(***************************************************************************)
(* The extract-type registry of ExtractTypes.py: addExtractType (create)   *)
(* and getExtractType (query) over a record set kept in an external store. *)
(*                                                                         *)
(* Values are tagged with their Python type, so that the number 1, the     *)
(* string "1" and None are three different values, as they are for the     *)
(* equality predicates the code applies (lines 215, 304, 331) and as the   *)
(* comment of lines 251-254 describes them.                                *)
(***************************************************************************)
EXTENDS Integers, Sequences, FiniteSets, TLC

(***************************************************************************)
(* Bounds of the model.                                                    *)
(***************************************************************************)
MaxCreates == 3

\* the callers; calls made one after the other are all made by the first
Procs == {1, 2}
Caller == CHOOSE p \in Procs : \A q \in Procs : p <= q

(***************************************************************************)
(* Python values.                                                          *)
(***************************************************************************)
None == [kind |-> "none", n |-> 0, s |-> ""]
IntV(i) == [kind |-> "int", n |-> i, s |-> ""]
StrV(t) == [kind |-> "str", n |-> 0, s |-> t]
\* the k-th identifier produced: an opaque string, distinct for distinct k
UidV(k) == [kind |-> "str", n |-> k, s |-> "uuid4_timestamp"]

Digits == <<"0", "1", "2", "3", "4", "5", "6", "7", "8", "9">>

RECURSIVE IntToStr(_)
IntToStr(i) ==
    IF i < 10 THEN Digits[i + 1]
    ELSE IntToStr(i \div 10) \o Digits[(i % 10) + 1]

\* str(x) of lines 226, 265 and 271
Str(v) ==
    CASE v.kind = "int" -> StrV(IntToStr(v.n))
      [] v.kind = "none" -> StrV("None")
      [] OTHER -> v

(***************************************************************************)
(* The vocabulary (lines 6-67).                                            *)
(***************************************************************************)
DelimiterEnum ==
    {StrV("vertical bar sep"), StrV("tab sep"), StrV("comma sep"), StrV("parquet")}
FullyQualifiedEnum == {StrV(""), StrV("\"")}
SplitBySizeEnum ==
    {StrV("250MB"), StrV("One file"), StrV("500 files"), StrV("3GB"), StrV("4GB")}
StorageFilesEnum == {StrV("yes"), StrV("no")}
ArchiveType == {StrV("no"), StrV("zip"), StrV("gz")}
ExtensionEnum == {StrV("tsv"), StrV("psv"), StrV("csv"), StrV("snappy.parquet")}

ENUM_MAP ==
    [delimiter |-> DelimiterEnum,
     fully_qualified |-> FullyQualifiedEnum,
     split_by_size |-> SplitBySizeEnum,
     storage_files |-> StorageFilesEnum,
     archive_type |-> ArchiveType,
     extension |-> ExtensionEnum]

EnumFields == DOMAIN ENUM_MAP
MandatoryFields == {"layout_id"} \cup EnumFields
FreeTextFields == {"internal_name", "naming_convention", "example", "observation"}
Fields == MandatoryFields \cup FreeTextFields
Columns == Fields \cup {"extract_type_uid"}

(***************************************************************************)
(* The layouts the layout store holds, by the path suffix                  *)
(* extractlayoutid=<id>/ (line 226).                                       *)
(***************************************************************************)
ExistingLayouts == {"1"}

\* __checkIfLayoutExists: the read of the layout path succeeds
LayoutExists(layout_id) == Str(layout_id).s \in ExistingLayouts

(***************************************************************************)
(* Keyword arguments: a function from the keywords a caller passes to      *)
(* their values.                                                           *)
(***************************************************************************)
EmptyKw == [f \in {} |-> None]
With(kw, f, v) == [g \in DOMAIN kw \cup {f} |-> IF g = f THEN v ELSE kw[g]]
Without(kw, f) == [g \in DOMAIN kw \ {f} |-> kw[g]]

\* the defaults of addExtractType's signature (lines 116-126)
AddDefault(f) == IF f \in FreeTextFields THEN StrV("") ELSE None

\* mutant of params: the free-text parameters are left at their defaults
AddLocals_DefaultFreeText(kw, uid) ==
    [c \in Columns |->
        IF c = "extract_type_uid" THEN uid
        ELSE IF c \in DOMAIN kw /\ c \notin FreeTextFields THEN kw[c]
        ELSE AddDefault(c)]

\* locals() of line 144 without self: every parameter, and extract_type_uid
AddLocals(kw, uid) ==
    [c \in Columns |->
        IF c = "extract_type_uid" THEN uid
        ELSE IF c \in DOMAIN kw THEN kw[c]
        ELSE AddDefault(c)]

\* non_empty_params of lines 200-204
NonEmptyParams(kw) ==
    [f \in {g \in DOMAIN kw : kw[g] # None} |-> kw[f]]

(***************************************************************************)
(* Validation (lines 260-308).  Each returns the error it raises, or "ok". *)
(***************************************************************************)
\* mutant of the common check: the vocabulary test is left out
ValidateInputParameters_NullOnly(kwargs) ==
    IF \E k \in DOMAIN kwargs : kwargs[k] = None
    THEN "ValidationError"
    ELSE "ok"

ValidateInputParameters(kwargs) ==
    IF \E k \in DOMAIN kwargs :
          \/ kwargs[k] = None
          \/ k \in DOMAIN ENUM_MAP /\ kwargs[k] \notin ENUM_MAP[k]
    THEN "ValidationError"
    ELSE "ok"

\* [err, lookup]: the error raised, and whether the layout store was read.
\* The read of a layout path that does not exist raises (line 227); an
\* unresolvable layout_id counts as a ValidationError.
ValidateForAdd(kwargs) ==
    IF "layout_id" \notin DOMAIN kwargs
    THEN [err |-> "ValidationError", lookup |-> FALSE]
    ELSE IF ~LayoutExists(kwargs["layout_id"])
    THEN [err |-> "ValidationError", lookup |-> TRUE]
    ELSE [err |-> ValidateInputParameters(
                      [kwargs EXCEPT !["layout_id"] = Str(@)]),
          lookup |-> TRUE]

ValidateForGet(kwargs) ==
    IF "layout_id" \in DOMAIN kwargs
    THEN IF ~LayoutExists(kwargs["layout_id"])
         THEN [err |-> "ValidationError", lookup |-> TRUE]
         ELSE [err |-> ValidateInputParameters(
                           [kwargs EXCEPT !["layout_id"] = Str(@)]),
               lookup |-> TRUE]
    ELSE [err |-> ValidateInputParameters(kwargs), lookup |-> FALSE]

(***************************************************************************)
(* Duplicate detection and filtering.                                      *)
(***************************************************************************)
\* df.drop("extract_type_uid") of lines 328-329, for one row
DropUid(r) == [c \in DOMAIN r \ {"extract_type_uid"} |-> r[c]]

\* mutants of the duplicate check: the identifier column is not dropped; the
\* count is compared with 1; the free-text columns are dropped too
ExtractTypeAlreadyExists_KeepsUid(all_extract_types, new_extract_type) ==
    all_extract_types \cap {new_extract_type} # {}

ExtractTypeAlreadyExists_MoreThanOne(all_extract_types, new_extract_type) ==
    Cardinality({DropUid(r) : r \in all_extract_types}
                    \cap {DropUid(new_extract_type)}) > 1

ExtractTypeAlreadyExists_KeyOnly(all_extract_types, new_extract_type) ==
    \E r \in all_extract_types :
        \A c \in MandatoryFields : r[c] = new_extract_type[c]

\* lines 328-336: the intersection of the two uid-less frames is not empty
ExtractTypeAlreadyExists(all_extract_types, new_extract_type) ==
    {DropUid(r) : r \in all_extract_types} \cap {DropUid(new_extract_type)} # {}

\* mutant of the filter loop: a record is kept when any one filter holds
FilterRecords_AnyFilter(extract_types, non_empty_params) ==
    {r \in extract_types :
        \E k \in DOMAIN non_empty_params : r[k] = non_empty_params[k]}

\* lines 214-215: one equality filter per supplied parameter
FilterRecords(extract_types, non_empty_params) ==
    {r \in extract_types :
        \A k \in DOMAIN non_empty_params : r[k] = non_empty_params[k]}

(***************************************************************************)
(* The calls the model makes.  Every call is the base call below with one  *)
(* keyword changed, dropped or added.                                      *)
(***************************************************************************)
BaseKw ==
    [layout_id |-> StrV("1"),
     delimiter |-> StrV("tab sep"),
     fully_qualified |-> StrV(""),
     split_by_size |-> StrV("One file"),
     storage_files |-> StrV("yes"),
     archive_type |-> StrV("zip"),
     extension |-> StrV("tsv")]

\* for each enum attribute, a value outside its vocabulary
OutOfVocabulary ==
    [delimiter |-> StrV("tab"),
     fully_qualified |-> StrV("'"),
     split_by_size |-> StrV("1GB"),
     storage_files |-> StrV("Yes"),
     archive_type |-> StrV("rar"),
     extension |-> StrV("txt")]

LayoutInputs ==
    {Without(BaseKw, "layout_id"),
     With(BaseKw, "layout_id", IntV(1)),
     With(BaseKw, "layout_id", StrV("9"))}

EnumInputs ==
    {With(BaseKw, f, OutOfVocabulary[f]) : f \in EnumFields}
    \cup {Without(BaseKw, "extension"), With(BaseKw, "delimiter", StrV("comma sep"))}

\* the base call with its four free-text attributes passed too, as their defaults
FullKw == [f \in Fields |-> IF f \in DOMAIN BaseKw THEN BaseKw[f] ELSE StrV("")]

FreeTextInputs ==
    {With(BaseKw, f, StrV("note")) : f \in FreeTextFields} \cup {FullKw}

\* the calls two interleaving callers make
ConcInputs ==
    {BaseKw, With(BaseKw, "observation", StrV("note")), Without(BaseKw, "layout_id")}

CreateInputs == {BaseKw} \cup LayoutInputs \cup EnumInputs \cup FreeTextInputs

QueryInputs ==
    {BaseKw, With(BaseKw, "delimiter", OutOfVocabulary["delimiter"])}
    \cup LayoutInputs
    \cup FreeTextInputs
    \cup {EmptyKw,
          With(EmptyKw, "delimiter", StrV("comma sep")),
          With(EmptyKw, "layout_id", IntV(1)),
          With(EmptyKw, "observation", StrV("note"))}

(***************************************************************************)
(* State.                                                                  *)
(***************************************************************************)
VARIABLES
    store,      \* the record set under the extract-types path
    sawAt,      \* for each stored record, the record set its duplicate check read
    uidctr,     \* identifiers generated so far
    pc,         \* where each caller's addExtractType stands
    call,       \* the keywords of the call in progress
    params,     \* its params dictionary (line 144, line 159)
    before,     \* the store when it was entered
    acc,        \* the external accesses it has made
    seen,       \* all_extract_types of line 320
    readFailed, \* the read of line 320 raised although the store holds records
    last,       \* the call completed last, while no call has begun since
    prev,       \* the call completed before it, when that was a successful create
    nCreates    \* calls of addExtractType so far

vars ==
    <<store, sawAt, uidctr, pc, call, params, before, acc, seen, readFailed,
      last, prev, nCreates>>

NoParams == [c \in Columns |-> None]

NoCall ==
    [op |-> "none", kw |-> EmptyKw, outcome |-> "none", acc |-> {},
     params |-> NoParams, before |-> {}, result |-> {}, readFailed |-> FALSE]

Init ==
    /\ store = {}
    /\ sawAt = {}
    /\ uidctr = 0
    /\ pc = [p \in Procs |-> "idle"]
    /\ call = [p \in Procs |-> EmptyKw]
    /\ params = [p \in Procs |-> NoParams]
    /\ before = [p \in Procs |-> {}]
    /\ acc = [p \in Procs |-> {}]
    /\ seen = [p \in Procs |-> {}]
    /\ readFailed = [p \in Procs |-> FALSE]
    /\ last = NoCall
    /\ prev = NoCall
    /\ nCreates = 0

\* no addExtractType is in progress
Sequential == \A q \in Procs : pc[q] = "idle"

\* what `prev` becomes when `last` is replaced
Earlier ==
    IF last = NoCall THEN prev
    ELSE IF last.op = "create" /\ last.outcome = "ok" THEN last
    ELSE NoCall

\* caller p's addExtractType ends with `outcome`, having made accesses `a`
Return(p, outcome, a) ==
    /\ prev' = Earlier
    /\ last' = [op |-> "create", kw |-> call[p], outcome |-> outcome, acc |-> a,
                params |-> params[p], before |-> before[p], result |-> {},
                readFailed |-> readFailed[p]]
    /\ pc' = [pc EXCEPT ![p] = "idle"]
    /\ call' = [call EXCEPT ![p] = EmptyKw]
    /\ params' = [params EXCEPT ![p] = NoParams]
    /\ before' = [before EXCEPT ![p] = {}]
    /\ acc' = [acc EXCEPT ![p] = {}]
    /\ seen' = [seen EXCEPT ![p] = {}]
    /\ readFailed' = [readFailed EXCEPT ![p] = FALSE]

(***************************************************************************)
(* addExtractType (lines 114-175), one action per external access.         *)
(***************************************************************************)
\* lines 138-145: the first identifier, and params
AddBegin(p, kw) ==
    /\ pc[p] = "idle"
    /\ nCreates < MaxCreates
    /\ nCreates' = nCreates + 1
    /\ uidctr' = uidctr + 1
    /\ pc' = [pc EXCEPT ![p] = "validate"]
    /\ call' = [call EXCEPT ![p] = kw]
    /\ params' = [params EXCEPT ![p] = AddLocals(kw, UidV(uidctr + 1))]
    /\ before' = [before EXCEPT ![p] = store]
    /\ prev' = Earlier
    /\ last' = NoCall
    /\ UNCHANGED <<store, sawAt, acc, seen, readFailed>>

\* lines 151-160: __validateForAdd on a copy of params (the ** of line 151),
\* then the second identifier
AddValidate(p) ==
    /\ pc[p] = "validate"
    /\ LET v == ValidateForAdd(params[p])
           a == IF v.lookup THEN {"layout"} ELSE {}
       IN  IF v.err # "ok"
           THEN /\ Return(p, v.err, a)
                /\ UNCHANGED uidctr
           ELSE /\ uidctr' = uidctr + 1
                /\ params' = [params EXCEPT ![p]["extract_type_uid"] = UidV(uidctr + 1)]
                /\ acc' = [acc EXCEPT ![p] = a]
                /\ pc' = [pc EXCEPT ![p] = "dupcheck"]
                /\ UNCHANGED <<call, before, seen, readFailed, last, prev>>
    /\ UNCHANGED <<store, sawAt, nCreates>>

\* line 165, __extractTypeAlreadyExists (lines 310-337): the read of an empty
\* folder raises and is caught; otherwise the intersection decides
AddDuplicateCheck(p) ==
    /\ pc[p] = "dupcheck"
    /\ IF store = {}
       THEN /\ pc' = [pc EXCEPT ![p] = "write"]
            /\ acc' = [acc EXCEPT ![p] = @ \cup {"read"}]
            /\ seen' = [seen EXCEPT ![p] = {}]
            /\ UNCHANGED <<call, params, before, readFailed, last, prev>>
       ELSE IF ExtractTypeAlreadyExists(store, params[p])
       THEN Return(p, "DuplicateError", acc[p] \cup {"read"})
       ELSE /\ pc' = [pc EXCEPT ![p] = "write"]
            /\ acc' = [acc EXCEPT ![p] = @ \cup {"read"}]
            /\ seen' = [seen EXCEPT ![p] = store]
            /\ UNCHANGED <<call, params, before, readFailed, last, prev>>
    /\ UNCHANGED <<store, sawAt, uidctr, nCreates>>

\* lines 170-175: the record is written under its own path
AddWrite(p) ==
    /\ pc[p] = "write"
    /\ store' = store \cup {params[p]}
    /\ sawAt' = sawAt \cup {[uid |-> params[p]["extract_type_uid"], saw |-> seen[p]]}
    /\ Return(p, "ok", acc[p] \cup {"write"})
    /\ UNCHANGED <<uidctr, nCreates>>

(***************************************************************************)
(* getExtractType (lines 177-217), run to completion.                      *)
(***************************************************************************)
\* [outcome, acc, result] of getExtractType(**kw) on the record set `records`
GetExtractType(kw, records) ==
    LET non_empty_params == NonEmptyParams(kw)
        v == ValidateForGet(non_empty_params)
        a == IF v.lookup THEN {"layout"} ELSE {}
    IN  IF v.err # "ok"
        THEN [outcome |-> v.err, acc |-> a, result |-> {}]
        ELSE IF records = {}
        THEN [outcome |-> "StoreError", acc |-> a \cup {"read"}, result |-> {}]
        ELSE [outcome |-> "ok", acc |-> a \cup {"read"},
              result |-> FilterRecords(records, non_empty_params)]

Query(kw) ==
    /\ Sequential
    /\ LET g == GetExtractType(kw, store)
       IN  /\ prev' = Earlier
           /\ last' = [op |-> "query", kw |-> kw, outcome |-> g.outcome, acc |-> g.acc,
                       params |-> NoParams, before |-> store, result |-> g.result,
                       readFailed |-> FALSE]
    /\ UNCHANGED <<store, sawAt, uidctr, pc, call, params, before, acc, seen,
                   readFailed, nCreates>>

\* a caller enters addExtractType while no other call is in progress
AddSequential(p, kw) == Sequential /\ AddBegin(p, kw)

(***************************************************************************)
(* Callers one at a time, the store answering every read and write.        *)
(***************************************************************************)
Next ==
    \/ \E kw \in CreateInputs : AddSequential(Caller, kw)
    \/ \E p \in Procs : AddValidate(p)
    \/ \E p \in Procs : AddDuplicateCheck(p)
    \/ \E p \in Procs : AddWrite(p)
    \/ \E kw \in QueryInputs : Query(kw)

Spec == Init /\ [][Next]_vars

(***************************************************************************)
(* The same callers over a store whose reads and writes may fail.          *)
(***************************************************************************)
\* lines 319-323: the read of line 320 raises although the store holds
\* records; the except clause catches it and the check is skipped
AddDuplicateCheckReadFails(p) ==
    /\ pc[p] = "dupcheck"
    /\ store # {}
    /\ pc' = [pc EXCEPT ![p] = "write"]
    /\ acc' = [acc EXCEPT ![p] = @ \cup {"read"}]
    /\ seen' = [seen EXCEPT ![p] = {}]
    /\ readFailed' = [readFailed EXCEPT ![p] = TRUE]
    /\ UNCHANGED <<store, sawAt, uidctr, call, params, before, last, prev, nCreates>>

\* lines 172-175: the write raises, and nothing is persisted
AddWriteFails(p) ==
    /\ pc[p] = "write"
    /\ Return(p, "StoreError", acc[p] \cup {"write"})
    /\ UNCHANGED <<store, sawAt, uidctr, nCreates>>

NextFault ==
    \/ \E kw \in CreateInputs : AddSequential(Caller, kw)
    \/ \E p \in Procs : AddValidate(p)
    \/ \E p \in Procs : AddDuplicateCheck(p)
    \/ \E p \in Procs : AddWrite(p)
    \/ \E p \in Procs : AddDuplicateCheckReadFails(p)
    \/ \E p \in Procs : AddWriteFails(p)

SpecFault == Init /\ [][NextFault]_vars

(***************************************************************************)
(* Two callers whose calls of addExtractType interleave at the store.      *)
(***************************************************************************)
NextConc ==
    \/ \E p \in Procs, kw \in ConcInputs : AddBegin(p, kw)
    \/ \E p \in Procs : AddValidate(p)
    \/ \E p \in Procs : AddDuplicateCheck(p)
    \/ \E p \in Procs : AddWrite(p)

SpecConc == Init /\ [][NextConc]_vars

(***************************************************************************)
(* Properties.                                                             *)
(***************************************************************************)
\* two records agree on every attribute other than extract_type_uid
SameAttributes(r1, r2) == \A f \in Fields : r1[f] = r2[f]

\* two records agree on layout_id and on the six enum attributes
SameKeyAttributes(r1, r2) ==
    /\ r1["layout_id"] = r2["layout_id"]
    /\ r1["delimiter"] = r2["delimiter"]
    /\ r1["fully_qualified"] = r2["fully_qualified"]
    /\ r1["split_by_size"] = r2["split_by_size"]
    /\ r1["storage_files"] = r2["storage_files"]
    /\ r1["archive_type"] = r2["archive_type"]
    /\ r1["extension"] = r2["extension"]

\* the record equals the keywords on every keyword passed
MatchesKw(r, kw) == \A k \in DOMAIN kw : r[k] = kw[k]

\* the allowed values of an enum attribute, written out
Vocabulary(f) ==
    CASE f = "delimiter" ->
            {StrV("vertical bar sep"), StrV("tab sep"), StrV("comma sep"), StrV("parquet")}
      [] f = "fully_qualified" -> {StrV(""), StrV("\"")}
      [] f = "split_by_size" ->
            {StrV("250MB"), StrV("One file"), StrV("500 files"), StrV("3GB"), StrV("4GB")}
      [] f = "storage_files" -> {StrV("yes"), StrV("no")}
      [] f = "archive_type" -> {StrV("no"), StrV("zip"), StrV("gz")}
      [] f = "extension" -> {StrV("tsv"), StrV("psv"), StrV("csv"), StrV("snappy.parquet")}

SixEnumAttributes ==
    {"delimiter", "fully_qualified", "split_by_size", "storage_files",
     "archive_type", "extension"}

\* the value addExtractType sees for attribute f of the call kw
Passed(kw, f) ==
    IF f \in DOMAIN kw THEN kw[f]
    ELSE IF f \in FreeTextFields THEN StrV("") ELSE None

\* a create completed last, right after a successful create completed
CreatedThenCreated ==
    /\ prev.op = "create" /\ prev.outcome = "ok"
    /\ last.op = "create"

\* a query completed last, right after a successful create with the same keywords
CreatedThenQueried ==
    /\ prev.op = "create" /\ prev.outcome = "ok"
    /\ last.op = "query"
    /\ last.kw = prev.kw

\* C1: after creates run one at a time from an empty store, no two stored
\* records are equal on every attribute other than extract_type_uid.
C1_NoSemanticDuplicates ==
    \A r1, r2 \in store : SameAttributes(r1, r2) => r1 = r2

\* a create was rejected as a duplicate while the store holds two records
C1_Witness ==
    /\ last.op = "create" /\ last.outcome = "DuplicateError"
    /\ Cardinality(store) >= 2

\* C2 as stated: a successful create followed at once by a query with the
\* keywords passed to create returns exactly one record, and it equals the
\* keywords on every one of them.
C2_ExactlyOneAfterCreate ==
    CreatedThenQueried =>
        /\ last.outcome = "ok"
        /\ Cardinality(last.result) = 1
        /\ \A r \in last.result : MatchesKw(r, last.kw)

\* C2 amended: the query succeeds and returns the created record, every record
\* it returns equals the keywords on every one of them, and it returns exactly
\* one record when all four free-text attributes were passed too.
C2_CreatedRecordReturned ==
    CreatedThenQueried =>
        /\ last.outcome = "ok"
        /\ \E r \in last.result : r = prev.params
        /\ \A r \in last.result : MatchesKw(r, last.kw)
        /\ FreeTextFields \subseteq DOMAIN last.kw => Cardinality(last.result) = 1

\* all eleven attributes were passed, the store holds a second record, and the
\* query returned the created record alone
C2_Witness ==
    /\ CreatedThenQueried
    /\ FreeTextFields \subseteq DOMAIN last.kw
    /\ Cardinality(store) >= 2
    /\ last.result = {prev.params}

\* C3: a create in which layout_id is omitted fails with ValidationError
\* before any access to the external store: no layout lookup, no read of the
\* record set and no write.
C3_OmittedLayoutFailsBeforeAnyAccess ==
    (last.op = "create" /\ "layout_id" \notin DOMAIN last.kw) =>
        /\ last.outcome = "ValidationError"
        /\ last.acc = {}

\* C4: layout_id is persisted in its string form, and the number and the
\* string form of one layout id never leave two records that are otherwise equal.
C4_LayoutIdStoredAsString ==
    /\ \A r \in store : r["layout_id"].kind = "str"
    /\ \A r1, r2 \in store :
          (/\ \A f \in Fields \ {"layout_id"} : r1[f] = r2[f]
           /\ Str(r1["layout_id"]) = Str(r2["layout_id"])) => r1 = r2

\* C5: a create in which one of the six enum attributes is not one of its
\* vocabulary's values fails with ValidationError, writes nothing, and leaves
\* the store holding the records it held before.
C5_OutOfVocabularyRejected ==
    (/\ last.op = "create"
     /\ \E f \in SixEnumAttributes : Passed(last.kw, f) \notin Vocabulary(f)) =>
        /\ last.outcome = "ValidationError"
        /\ "write" \notin last.acc
        /\ store = last.before

\* delimiter="tab" was rejected for an existing layout, the store holding a record
C5_Witness ==
    /\ last.op = "create"
    /\ Passed(last.kw, "delimiter") = StrV("tab")
    /\ Passed(last.kw, "layout_id") = StrV("1")
    /\ last.outcome = "ValidationError"
    /\ last.acc = {"layout"}
    /\ store # {}

\* C6: a create whose attributes equal those of the successful create before
\* it fails with DuplicateError without writing, and the store then holds
\* exactly one record with those attributes.
C6_SecondCreateIsDuplicate ==
    (CreatedThenCreated /\ SameAttributes(last.params, prev.params)) =>
        /\ last.outcome = "DuplicateError"
        /\ "write" \notin last.acc
        /\ store = last.before
        /\ Cardinality({r \in store : SameAttributes(r, last.params)}) = 1

\* the second of two equal creates was rejected as a duplicate
C6_Witness ==
    /\ CreatedThenCreated
    /\ SameAttributes(last.params, prev.params)
    /\ last.outcome = "DuplicateError"
    /\ prev.params \in store

\* C7 as stated: on every store, the empty one included, a query with valid
\* filters returns exactly the stored records that equal every filter.
C7_QueryReturnsMatchingOnAnyStore ==
    (last.op = "query" /\ last.outcome # "ValidationError") =>
        /\ last.outcome = "ok"
        /\ last.result = {r \in store : MatchesKw(r, last.kw)}

\* C7 amended: on a store that holds records it does so (all of them without
\* filters, none when no record matches); on the empty store the read of the
\* record set fails and the query fails with StoreError.
C7_QueryReturnsMatching ==
    (last.op = "query" /\ last.outcome # "ValidationError") =>
        IF store = {}
        THEN last.outcome = "StoreError" /\ last.result = {}
        ELSE /\ last.outcome = "ok"
             /\ last.result = {r \in store : MatchesKw(r, last.kw)}
             /\ DOMAIN last.kw = {} => last.result = store

\* a query with a filter that no stored record matches returned no record
C7_Witness ==
    /\ last.op = "query" /\ last.outcome = "ok"
    /\ DOMAIN last.kw # {}
    /\ Cardinality(store) >= 2
    /\ last.result = {}

\* C8: a create whose read of the record set fails while the store holds
\* records fails with StoreError and persists nothing, so that no semantic
\* duplicate is ever written.
C8_FailedReadAbortsCreate ==
    /\ (last.op = "create" /\ last.readFailed) =>
          (last.outcome = "StoreError" /\ store = last.before)
    /\ \A r1, r2 \in store : SameAttributes(r1, r2) => r1.extract_type_uid = r2.extract_type_uid

\* the record set the duplicate check of stored record r read
SawOf(r) == UNION {e.saw : e \in {x \in sawAt : x.uid = r["extract_type_uid"]}}

\* C9: two stored records that differ only in extract_type_uid come from
\* creates that both passed the duplicate check: neither check read the
\* other's record.
C9_DuplicatesOnlyByRace ==
    \A r1, r2 \in store :
        (r1 # r2 /\ SameAttributes(r1, r2)) =>
            (r1 \notin SawOf(r2) /\ r2 \notin SawOf(r1))

\* two interleaved creates of equal records both succeeded, and the store
\* holds both records, which differ in extract_type_uid only
C9_Witness ==
    /\ CreatedThenCreated
    /\ last.outcome = "ok"
    /\ SameAttributes(last.params, prev.params)
    /\ last.params # prev.params
    /\ {last.params, prev.params} \subseteq store

\* C10: a create that equals a stored record on layout_id and the six enum
\* attributes and differs from it in a free-text attribute is not rejected as
\* its duplicate: unless a record equal on every attribute is stored, it
\* succeeds and is persisted as a further record.
C10_FreeTextDistinguishes ==
    (/\ last.op = "create"
     /\ \E r \in last.before :
           SameKeyAttributes(r, last.params) /\ ~SameAttributes(r, last.params)
     /\ ~\E r \in last.before : SameAttributes(r, last.params)) =>
        /\ last.outcome = "ok"
        /\ last.params \in store
        /\ store = last.before \cup {last.params}
        /\ Cardinality(store) = Cardinality(last.before) + 1

\* a record differing from a stored one in free text only was persisted
C10_Witness ==
    /\ last.op = "create" /\ last.outcome = "ok"
    /\ \E r \in last.before :
          SameKeyAttributes(r, last.params) /\ ~SameAttributes(r, last.params)
    /\ Cardinality(store) >= 2

====
